---- MODULE Spec2Model ----
(***************************************************************************)
(* A model of squirrel.py: ConnectionPool (admission counter `owed`, FIFO  *)
(* `queue`, idle deque `connections`), CursorFairy (the lease handle whose *)
(* death checks the connection in) and poll (the readiness poller).        *)
(*                                                                         *)
(* Everything runs on one reactor thread.  A handler may call user code    *)
(* synchronously (callback(fairy) inside _dispatch, self.callback() inside *)
(* poll.tick) and that user code may call back into the pool, so the       *)
(* call stack is explicit: `stack` holds the _process_queue loops and the  *)
(* user callbacks that are in progress.  While it is non-empty only the    *)
(* innermost frame can take a step; the reactor delivers the next event    *)
(* only when it is empty.                                                  *)
(***************************************************************************)
EXTENDS Integers, Sequences, FiniteSets, TLC

\* ---------------------------------------------------------------- bounds
MaxPool == 2
NumRequests == 3
MaxExec == 1

Requests == 1..NumRequests
Conns == 1..NumRequests

\* ------------------------------------------------- driver / reactor values
\* psycopg2.extensions poll states; PollUnknown stands for any value that
\* is not a key of STATE_MAP.
POLL_OK == 0
POLL_READ == 1
POLL_WRITE == 2
POLL_ERROR == 3
PollUnknown == 4
\* connection.poll() raising instead of returning a state
RaiseOperational == 5
RaiseProgramming == 6

\* tornado.ioloop.IOLoop event bits; they are disjoint, so ERROR | READ is
\* ERROR + READ
READ == 1
WRITE == 4
ERROR == 24

\* STATE_MAP.get(state) is None for a state that is no key.  The module is
\* Python 2 (test_squirrel.py names a method `async` and calls .next), where
\* None orders below every integer: None > 0 is false, None < 0 and
\* None <= 0 are true, None == 0 is false.  NoneMask has just that order.
NoneMask == -2

STATE_MAP(state) ==
    CASE state = POLL_OK    -> 0
      [] state = POLL_READ  -> ERROR + READ
      [] state = POLL_WRITE -> ERROR + WRITE
      [] state = POLL_ERROR -> -1
      [] OTHER              -> NoneMask

DispatchOutcomes == {POLL_OK, POLL_READ, POLL_WRITE, POLL_ERROR, PollUnknown, RaiseOperational}
QueryOutcomes == DispatchOutcomes \cup {RaiseProgramming}
Raises(out) == out \in {RaiseOperational, RaiseProgramming}
\* an unknown/error poll state or a connection-level exception
Connectivity(out) == out \in {POLL_ERROR, PollUnknown, RaiseOperational}

VARIABLES
    max_connections,  \* ConnectionPool.max_connections, fixed at construction
    queue,        \* ConnectionPool.queue: pending dispatch units, by request
    owed,         \* ConnectionPool.owed
    connections,  \* ConnectionPool.connections: the idle deque
    closed,       \* ConnectionPool._closed
    refs,         \* ConnectionPool._refs: requests whose fairy is alive
    handlers,     \* io_loop: interest mask registered per descriptor, 0 = none
    pollers,      \* the poll object last made per connection: <<request, k>>,
                  \* k = 0 the poll of _dispatch, k > 0 of its k-th execute
    callbacks,    \* io_loop: number of scheduled _process_queue callbacks
    connClosed,   \* connection.closed per connection
    nconn,        \* connections psycopg2.connect has returned so far
    rstate,       \* where each request is
    rconn,        \* the connection a request was dispatched on, 0 = none
    held,         \* the caller keeps a reference to the request's fairy
    qstate,       \* the fairy's query poll: none, polling, done, error
    nexec,        \* execute calls made on the fairy
    stack,        \* frames in progress, innermost last
    next,         \* the next request to be submitted
    dispatched,   \* history: requests in the order _process_queue popped them
    connErr,      \* history: the connection has hit a connectivity error
    obs           \* history: per request, what was observed

vars == <<max_connections, queue, owed, connections, closed, refs, handlers, pollers, callbacks,
          connClosed, nconn, rstate, rconn, held, qstate, nexec, stack, next,
          dispatched, connErr, obs>>

\* ---------------------------------------------------------------- history
NoObs ==
    [subFree |-> FALSE,  \* submitted with an empty queue and owed < max
     admitOwed |-> -1,   \* owed right before its admission
     dispIn |-> -1,      \* whose cursor() call ran its dispatch; 0 = a deferred scan
     nconnect |-> 0,     \* psycopg2.connect calls made for it
     ndeliver |-> 0,     \* callback(fairy) calls
     nerror |-> 0,       \* errors raised out of its _dispatch
     ncheckin |-> 0,     \* _checkin calls for its connection
     nerrcheckin |-> 0,  \* ... of which with err
     pok |-> [k \in 0..MaxExec + 1 |-> 0],   \* poller k of r: self.callback() calls
     perr |-> [k \in 0..MaxExec + 1 |-> 0],  \* poller k of r: exceptions raised by tick
     afterClose |-> FALSE,  \* submitted after close()
     badreg |-> FALSE]      \* a poller of r broke the io_loop's handler contract

Inc(n) == IF n < 3 THEN n + 1 ELSE n

\* ------------------------------------------------------------------ frames
ScanFrame(r) == [kind |-> "scan", req |-> r]
CbFrame(r) == [kind |-> "cb", req |-> r]
Top == stack[Len(stack)]
Pop(s) == SubSeq(s, 1, Len(s) - 1)
InScan == stack # <<>> /\ Top.kind = "scan"
InCb == stack # <<>> /\ Top.kind = "cb"
\* the reactor is between events
Idle == stack = <<>>
\* user code is running: a reactor-level callback of the application, or a
\* callback the pool or a poller has called
UserCtx == Idle \/ InCb
InFrame(r, s) == \E i \in 1..Len(s) : s[i] = CbFrame(r)

\* ------------------------------------------------------------ pure pieces
\* the loop condition with <= for <
CanAdmitLE(q, o) == q # <<>> /\ o <= max_connections

\* the loop condition of a pool that stops admitting once closed
CanAdmitOpen(q, o) == q # <<>> /\ o < max_connections /\ ~closed

\* ConnectionPool._process_queue: the loop condition
CanAdmit(q, o) == q # <<>> /\ o < max_connections

\* self.queue.pop() for popleft()
PopRight(q) == <<q[Len(q)], SubSeq(q, 1, Len(q) - 1)>>

\* ConnectionPool._process_queue: self.queue.popleft(), as <<the unit popped,
\* the queue left>>
PopLeft(q) == <<Head(q), Tail(q)>>

\* A _dispatch whose popleft() always raises IndexError: it connects every time
ConnectAlways(conns) == FALSE

\* ConnectionPool._dispatch: popleft() succeeds, so the except IndexError
\* branch with psycopg2.connect is not taken
HasIdle(conns) == conns # <<>>

\* A _dispatch that takes the right end of the deque: self.connections.pop()
TakeIdleRight(conns) == <<conns[Len(conns)], SubSeq(conns, 1, Len(conns) - 1)>>

\* ConnectionPool._dispatch: self.connections.popleft() of a non-empty deque
\* (IndexError when empty), as <<the connection taken, the deque left>>
TakeIdle(conns) == <<Head(conns), Tail(conns)>>

\* ConnectionPool._checkin: self.owed -= 1
CheckinOwed(o) == o - 1

\* ConnectionPool._checkin: the branches that call connection.close()
CheckinCloses(err, poolClosed) == err \/ poolClosed

\* A _checkin that does not test connection.closed before it appends
CheckinIdlesClosed(err, poolClosed, cClosed) == ~err /\ ~poolClosed

\* ConnectionPool._checkin: the branch that appends to self.connections
CheckinIdles(err, poolClosed, cClosed) == ~err /\ ~poolClosed /\ ~cClosed

ConnsAfterCheckin(conns, c, err, poolClosed, cc) ==
    IF CheckinIdles(err, poolClosed, cc[c]) THEN Append(conns, c) ELSE conns

ClosedAfterCheckin(cc, c, err, poolClosed) ==
    IF CheckinCloses(err, poolClosed) THEN [cc EXCEPT ![c] = TRUE] ELSE cc

ObsCheckin(o, r, err) ==
    [o EXCEPT ![r].ncheckin = Inc(@),
              ![r].nerrcheckin = IF err THEN Inc(@) ELSE @]

\* poll.tick: mask starts at -1 and keeps it when connection.poll() raises
TickMask(out) == IF Raises(out) THEN -1 ELSE STATE_MAP(out)

\* poll.tick: an exception leaves tick (raised by poll(), or by the
\* `elif mask < 0` branch)
TickRaises(mask) == mask < 0

\* tick whose finally clause calls self.callback() without the test mask == 0
TickCallsAnyEnd(mask) == mask <= 0

\* poll.tick: the finally clause calls self.callback()
TickCalls(mask) == mask = 0

\* tick without the test of events: it calls add_handler whenever the driver
\* wants I/O
TickOpAlwaysAdd(events, mask) ==
    IF mask > 0 THEN "add" ELSE IF events # 0 THEN "remove" ELSE "none"

\* tick without the remove_handler of its finally clause
TickOpNoRemove(events, mask) ==
    IF mask > 0
    THEN IF events = 0 THEN "add" ELSE IF events > 0 THEN "update" ELSE "none"
    ELSE "none"

\* poll.tick: what the call does to the reactor's registration of fd
TickOp(events, mask) ==
    IF mask > 0
    THEN IF events = 0 THEN "add" ELSE IF events > 0 THEN "update" ELSE "none"
    ELSE IF events # 0 THEN "remove" ELSE "none"

TickHandler(h, events, mask) ==
    CASE TickOp(events, mask) = "add"    -> mask
      [] TickOp(events, mask) = "update" -> mask
      [] TickOp(events, mask) = "remove" -> 0
      [] OTHER                           -> h

\* The io_loop's contract for a descriptor whose registered events are h:
\* add_handler on a registered one, update_handler or remove_handler on one
\* that is not registered
RegMisuse(h, op) ==
    \/ op = "add" /\ h # 0
    \/ op \in {"update", "remove"} /\ h = 0

\* history of the handler call one tick of a poller of r makes
ObsReg(o, r, h, events, mask) ==
    [o EXCEPT ![r].badreg = @ \/ RegMisuse(h, TickOp(events, mask))]

\* An exception that no stack context handles and no caller catches leaves
\* every frame in progress; the traceback keeps the frames' fairies alive
\* until the application lets go of it.
HeldAfterUnwind(h, s) == [r \in Requests |-> h[r] \/ InFrame(r, s)]

\* close with `if` for `while`: one pop().close() at most
CloseOne(conns, cc) ==
    IF conns = <<>> THEN <<conns, cc>>
    ELSE <<SubSeq(conns, 1, Len(conns) - 1), [cc EXCEPT ![conns[Len(conns)]] = TRUE]>>

\* ConnectionPool.close: while self.connections: self.connections.pop().close(),
\* as <<the deque left, the connections' closed flags>>
CloseAll(conns, cc) ==
    <<<<>>, [c \in Conns |-> cc[c] \/ \E i \in 1..Len(conns) : conns[i] = c]>>

\* A fairy the poller of its query does not keep alive: CursorFairy.poll
\* without partial(callback, self)
DeadIgnoringPoll(r, h, s, q) == ~h[r] /\ ~InFrame(r, s)

\* the fairy of r is garbage: nothing refers to it any more
Dead(r, h, s, q) == ~h[r] /\ ~InFrame(r, s) /\ q[r] # "polling"

Init ==
    /\ max_connections \in 1..MaxPool
    /\ queue = <<>>
    /\ owed = 0
    /\ connections = <<>>
    /\ closed = FALSE
    /\ refs = {}
    /\ handlers = [c \in Conns |-> 0]
    /\ pollers = [c \in Conns |-> <<0, 0>>]
    /\ callbacks = 0
    /\ connClosed = [c \in Conns |-> FALSE]
    /\ nconn = 0
    /\ rstate = [r \in Requests |-> "new"]
    /\ rconn = [r \in Requests |-> 0]
    /\ held = [r \in Requests |-> FALSE]
    /\ qstate = [r \in Requests |-> "none"]
    /\ nexec = [r \in Requests |-> 0]
    /\ stack = <<>>
    /\ next = 1
    /\ dispatched = <<>>
    /\ connErr = [c \in Conns |-> FALSE]
    /\ obs = [r \in Requests |-> NoObs]

\* ----------------------------------------------------------------- actions
\* ConnectionPool.cursor, up to the call of _process_queue, whose loop is the
\* scan frame pushed here.  Requests are numbered in the order of submission.
Cursor ==
    /\ UserCtx
    /\ next <= NumRequests
    /\ queue' = Append(queue, next)
    /\ rstate' = [rstate EXCEPT ![next] = "pending"]
    /\ stack' = Append(stack, ScanFrame(next))
    /\ obs' = [obs EXCEPT ![next].subFree = (queue = <<>> /\ owed < max_connections),
                          ![next].afterClose = closed]
    /\ next' = next + 1
    /\ UNCHANGED <<max_connections, owed, connections, closed, refs, handlers, pollers,
                   callbacks, connClosed, nconn, rconn, held, qstate, nexec,
                   dispatched, connErr>>

\* ConnectionPool._process_queue: the loop condition is false, the call returns
ScanExit ==
    /\ InScan
    /\ ~CanAdmit(queue, owed)
    /\ stack' = Pop(stack)
    /\ UNCHANGED <<max_connections, queue, owed, connections, closed, refs, handlers, pollers,
                   callbacks, connClosed, nconn, rstate, rconn, held, qstate,
                   nexec, next, dispatched, connErr, obs>>

\* One turn of the loop of _process_queue: owed += 1, popleft, and the call of
\* _dispatch up to the point where it returns to the loop, calls the user's
\* callback or raises.
\*   connectRaises: psycopg2.connect raises (line 70, outside any try)
\*   out: what the first connection.poll() does (poll.__init__ calls tick)
\*   handled: a stack context of the caller of cursor() takes the exception;
\*            otherwise it leaves _process_queue and every frame below it
ScanAdmit ==
    /\ InScan
    /\ CanAdmit(queue, owed)
    /\ \E connectRaises \in BOOLEAN, out \in DispatchOutcomes, handled \in BOOLEAN :
        LET r == PopLeft(queue)[1]
            reuse == HasIdle(connections)
            c == IF reuse THEN TakeIdle(connections)[1] ELSE nconn + 1
            conns1 == IF reuse THEN TakeIdle(connections)[2] ELSE connections
            owed1 == owed + 1
            mask == TickMask(out)
            o1 == [obs EXCEPT ![r].admitOwed = owed,
                              ![r].dispIn = Top.req,
                              ![r].nconnect = IF reuse THEN @ ELSE Inc(@)]
            o2 == ObsReg(o1, r, handlers[c], 0, mask)
        IN  /\ queue' = PopLeft(queue)[2]
            /\ dispatched' = Append(dispatched, r)
            /\ UNCHANGED <<max_connections, closed, callbacks, qstate, nexec, next>>
            /\ IF connectRaises
               THEN \* no connection, no _checkin: the exception leaves _dispatch
                    /\ ~reuse
                    /\ owed' = owed1
                    /\ rstate' = [rstate EXCEPT ![r] = "failed"]
                    /\ obs' = [o1 EXCEPT ![r].nerror = Inc(@)]
                    /\ stack' = IF handled THEN stack ELSE <<>>
                    /\ held' = IF handled THEN held ELSE HeldAfterUnwind(held, stack)
                    /\ UNCHANGED <<connections, refs, handlers, pollers, connClosed,
                                   nconn, rconn, connErr>>
               ELSE /\ nconn' = IF reuse THEN nconn ELSE nconn + 1
                    /\ rconn' = [rconn EXCEPT ![r] = c]
                    /\ handlers' = [handlers EXCEPT ![c] = TickHandler(@, 0, mask)]
                    /\ pollers' = [pollers EXCEPT ![c] = <<r, 0>>]
                    /\ IF TickRaises(mask)
                       THEN \* except: self._checkin(connection, e); raise
                            /\ owed' = CheckinOwed(owed1)
                            /\ connections' = ConnsAfterCheckin(conns1, c, TRUE, closed, connClosed)
                            /\ connClosed' = ClosedAfterCheckin(connClosed, c, TRUE, closed)
                            /\ connErr' = [connErr EXCEPT ![c] = TRUE]
                            /\ rstate' = [rstate EXCEPT ![r] = "failed"]
                            /\ obs' = [ObsCheckin(o2, r, TRUE) EXCEPT
                                          ![r].nerror = Inc(@), ![r].perr[0] = Inc(@)]
                            /\ stack' = IF handled THEN stack ELSE <<>>
                            /\ held' = IF handled THEN held ELSE HeldAfterUnwind(held, stack)
                            /\ UNCHANGED refs
                       ELSE /\ owed' = owed1
                            /\ connections' = conns1
                            /\ UNCHANGED <<connClosed, connErr, held>>
                            /\ IF TickCalls(mask)
                               THEN \* fairy = self._make_fairy(...); callback(fairy)
                                    /\ rstate' = [rstate EXCEPT ![r] = "leased"]
                                    /\ refs' = refs \cup {r}
                                    /\ stack' = Append(stack, CbFrame(r))
                                    /\ obs' = [o2 EXCEPT ![r].ndeliver = Inc(@),
                                                         ![r].pok[0] = Inc(@)]
                               ELSE \* the generator waits at the yield
                                    /\ rstate' = [rstate EXCEPT ![r] = "connecting"]
                                    /\ UNCHANGED <<refs, stack>>
                                    /\ obs' = o2

\* The io_loop runs a _process_queue scheduled by _on_fairy_deref
RunCallback ==
    /\ Idle
    /\ callbacks > 0
    /\ callbacks' = callbacks - 1
    /\ stack' = <<ScanFrame(0)>>
    /\ UNCHANGED <<max_connections, queue, owed, connections, closed, refs, handlers, pollers,
                   connClosed, nconn, rstate, rconn, held, qstate, nexec, next,
                   dispatched, connErr, obs>>

\* ConnectionPool.close
Close ==
    /\ UserCtx
    /\ closed' = TRUE
    /\ connections' = CloseAll(connections, connClosed)[1]
    /\ connClosed' = CloseAll(connections, connClosed)[2]
    /\ UNCHANGED <<max_connections, queue, owed, refs, handlers, pollers, callbacks,
                   nconn, rstate, rconn, held, qstate, nexec, stack, next,
                   dispatched, connErr, obs>>

\* ConnectionPool._on_fairy_deref for the fairy of r: the weakref is removed,
\* the cursor's connection is checked in with no error, a _process_queue is
\* scheduled.  cc is connection.closed as the driver has left it, o the
\* history so far.
Deref(r, cc, o) ==
    /\ refs' = refs \ {r}
    /\ owed' = CheckinOwed(owed)
    /\ connections' = ConnsAfterCheckin(connections, rconn[r], FALSE, closed, cc)
    /\ connClosed' = ClosedAfterCheckin(cc, rconn[r], FALSE, closed)
    /\ callbacks' = callbacks + 1
    /\ rstate' = [rstate EXCEPT ![r] = "released"]
    /\ obs' = ObsCheckin(o, r, FALSE)

NoDeref(cc, o) ==
    /\ connClosed' = cc
    /\ obs' = o
    /\ UNCHANGED <<refs, owed, connections, callbacks, rstate>>

\* The reactor reports readiness on the descriptor of c: the handler is the
\* tick of the poll object registered there.
\*   out: what connection.poll() does
\*   drv: the driver marks the connection closed on a connectivity error
Tick(c) ==
    /\ Idle
    /\ handlers[c] # 0
    /\ \E out \in QueryOutcomes, drv \in BOOLEAN :
        LET r == pollers[c][1]
            k == pollers[c][2]
            events == handlers[c]
            mask == TickMask(out)
            cc1 == IF drv /\ Connectivity(out)
                   THEN [connClosed EXCEPT ![c] = TRUE] ELSE connClosed
            ob == ObsReg(obs, r, handlers[c], events, mask)
        IN  /\ k = 0 => out \in DispatchOutcomes
            /\ handlers' = [handlers EXCEPT ![c] = TickHandler(@, events, mask)]
            /\ connErr' = [connErr EXCEPT ![c] = @ \/ Connectivity(out)]
            /\ UNCHANGED <<max_connections, queue, closed, pollers, nconn, rconn, nexec, next,
                         dispatched>>
            /\ CASE TickCalls(mask) ->
                      LET o1 == [ob EXCEPT ![r].pok[k] = Inc(@)]
                      IN  /\ held' = held
                          /\ IF k = 0
                             THEN \* the generator of _dispatch resumes in its else branch
                                  /\ qstate' = qstate
                                  /\ IF rstate[r] = "connecting"
                                     THEN /\ rstate' = [rstate EXCEPT ![r] = "leased"]
                                          /\ refs' = refs \cup {r}
                                          /\ stack' = <<CbFrame(r)>>
                                          /\ obs' = [o1 EXCEPT ![r].ndeliver = Inc(@)]
                                          /\ UNCHANGED <<owed, connections, callbacks, connClosed>>
                                     ELSE \* the generator has finished already
                                          /\ stack' = stack
                                          /\ NoDeref(connClosed, o1)
                             ELSE \* partial(callback, fairy)()
                                  /\ qstate' = [qstate EXCEPT ![r] = "done"]
                                  /\ stack' = <<CbFrame(r)>>
                                  /\ NoDeref(connClosed, o1)
                 [] TickRaises(mask) ->
                      LET o1 == [ob EXCEPT ![r].perr[k] = Inc(@)]
                      IN  /\ stack' = stack
                          /\ held' = held
                          /\ IF k = 0
                             THEN \* thrown into the generator: _checkin(connection, e); raise
                                  /\ qstate' = qstate
                                  /\ IF rstate[r] = "connecting"
                                     THEN /\ owed' = CheckinOwed(owed)
                                          /\ connections' = ConnsAfterCheckin(connections, c, TRUE, closed, cc1)
                                          /\ connClosed' = ClosedAfterCheckin(cc1, c, TRUE, closed)
                                          /\ rstate' = [rstate EXCEPT ![r] = "failed"]
                                          /\ obs' = [ObsCheckin(o1, r, TRUE) EXCEPT ![r].nerror = Inc(@)]
                                          /\ UNCHANGED <<refs, callbacks>>
                                     ELSE NoDeref(cc1, o1)
                             ELSE \* self.callback = None drops the poller's reference to the fairy
                                  /\ qstate' = [qstate EXCEPT ![r] = "error"]
                                  /\ IF r \in refs /\ Dead(r, held, stack, qstate')
                                     THEN Deref(r, cc1, o1)
                                     ELSE NoDeref(cc1, o1)
                 [] OTHER ->
                      /\ UNCHANGED <<stack, held, qstate>>
                      /\ NoDeref(connClosed, ob)

\* CursorFairy.execute on the fairy of r: cursor.execute, then poll(...), whose
\* __init__ runs the first tick.  The caller holds the fairy.
\* cursor.execute on a closed connection raises before any poll object is
\* made and changes nothing, so the action is left out for one.
\*   caught: the caller (or a stack context) takes the exception of a failed
\*           first tick; otherwise it leaves every frame in progress
Execute(r) ==
    /\ UserCtx
    /\ r \in refs
    /\ held[r] \/ (InCb /\ Top.req = r)
    /\ qstate[r] # "polling"
    /\ nexec[r] < MaxExec
    /\ ~connClosed[rconn[r]]
    /\ \E out \in QueryOutcomes, drv \in BOOLEAN, caught \in BOOLEAN :
        LET c == rconn[r]
            k == nexec[r] + 1
            mask == TickMask(out)
            cc1 == IF drv /\ Connectivity(out)
                   THEN [connClosed EXCEPT ![c] = TRUE] ELSE connClosed
            ob == ObsReg(obs, r, handlers[c], 0, mask)
        IN  /\ nexec' = [nexec EXCEPT ![r] = k]
            /\ handlers' = [handlers EXCEPT ![c] = TickHandler(@, 0, mask)]
            /\ pollers' = [pollers EXCEPT ![c] = <<r, k>>]
            /\ connErr' = [connErr EXCEPT ![c] = @ \/ Connectivity(out)]
            /\ UNCHANGED <<max_connections, queue, closed, nconn, rconn, next, dispatched>>
            /\ CASE TickCalls(mask) ->
                      /\ qstate' = [qstate EXCEPT ![r] = "done"]
                      /\ stack' = Append(stack, CbFrame(r))
                      /\ held' = held
                      /\ NoDeref(connClosed, [ob EXCEPT ![r].pok[k] = Inc(@)])
                 [] TickRaises(mask) ->
                      /\ qstate' = [qstate EXCEPT ![r] = "error"]
                      /\ stack' = IF caught THEN stack ELSE <<>>
                      /\ held' = IF caught THEN held ELSE HeldAfterUnwind(held, stack)
                      /\ NoDeref(cc1, [ob EXCEPT ![r].perr[k] = Inc(@)])
                 [] OTHER ->
                      /\ qstate' = [qstate EXCEPT ![r] = "polling"]
                      /\ UNCHANGED <<stack, held>>
                      /\ NoDeref(connClosed, ob)

\* The caller lets go of its reference to the fairy of r.  When that was the
\* last one, the weakref callback runs at once (reference counting).
Drop(r) ==
    /\ UserCtx
    /\ held[r]
    /\ held' = [held EXCEPT ![r] = FALSE]
    /\ IF r \in refs /\ Dead(r, held', stack, qstate)
       THEN Deref(r, connClosed, obs)
       ELSE NoDeref(connClosed, obs)
    /\ UNCHANGED <<max_connections, queue, closed, handlers, pollers, nconn, rconn, qstate, nexec,
                   stack, next, dispatched, connErr>>

\* The user's callback returns.  keep: it has stored the fairy somewhere.
CbReturn ==
    /\ InCb
    /\ \E keep \in BOOLEAN :
        LET r == Top.req
        IN  /\ stack' = Pop(stack)
            /\ held' = [held EXCEPT ![r] = @ \/ keep]
            /\ IF r \in refs /\ Dead(r, held', stack', qstate)
               THEN Deref(r, connClosed, obs)
               ELSE NoDeref(connClosed, obs)
    /\ UNCHANGED <<max_connections, queue, closed, handlers, pollers, nconn, rconn, qstate, nexec,
                   next, dispatched, connErr>>

Next ==
    \/ Cursor
    \/ ScanAdmit
    \/ ScanExit
    \/ RunCallback
    \/ Close
    \/ \E c \in Conns : Tick(c)
    \/ \E r \in Requests : Execute(r)
    \/ \E r \in Requests : Drop(r)
    \/ CbReturn

Spec == Init /\ [][Next]_vars

TypeOK ==
    /\ owed \in Int
    /\ closed \in BOOLEAN
    /\ refs \subseteq Requests
    /\ callbacks \in 0..NumRequests
    /\ nconn \in 0..NumRequests
    /\ \A r \in Requests : rstate[r] \in {"new", "pending", "connecting", "leased", "released", "failed"}
    /\ \A r \in Requests : qstate[r] \in {"none", "polling", "done", "error"}
    /\ \A c \in Conns : handlers[c] \in {0, ERROR + READ, ERROR + WRITE}

\* ------------------------------------------------------------------ claims
InUse(r) == rstate[r] \in {"connecting", "leased"}
Dispatched(r) == rstate[r] \notin {"new", "pending"}
IdleSet == {connections[i] : i \in 1..Len(connections)}
Quiescent == Idle /\ callbacks = 0

\* C1: owed is exactly the number of connections leased to a live handle or
\* being established, in every reachable state.
C1_OwedCountsLeases == owed = Cardinality({r \in Requests : InUse(r)})

\* C2: 0 <= owed <= max_connections in every reachable state, re-entrant
\* scans and checkins included.
C2_OwedInRange == 0 <= owed /\ owed <= max_connections

\* a callback called from inside the admission scan has called cursor() again
\* and the pool is full
C2_Witness ==
    /\ owed = max_connections
    /\ \E i \in 1..Len(stack) : \E j \in 1..Len(stack) :
          i < j /\ j < Len(stack) /\ stack[i].kind = "scan"
                /\ stack[j].kind = "cb" /\ Top.kind = "scan"
    /\ \E r \in Requests : rstate[r] = "released"

\* C3: requests are dispatched in the order of submission, each only when
\* owed < max_connections held right before; a request submitted while the
\* queue is empty and a slot is free (the first max_connections above all) is
\* dispatched inside its own cursor() call.
C3_FifoAdmission ==
    /\ \A i \in 1..Len(dispatched) : dispatched[i] = i
    /\ \A r \in Requests :
          /\ Dispatched(r) => 0 <= obs[r].admitOwed /\ obs[r].admitOwed < max_connections
          /\ r <= max_connections /\ rstate[r] # "new" => obs[r].subFree
          /\ obs[r].subFree /\ Dispatched(r) => obs[r].dispIn = r
          /\ obs[r].subFree /\ rstate[r] = "pending" => InScan /\ Top.req = r

\* three acquisitions on a pool of one: the second is dispatched by the scan
\* of the third's cursor() call, which came between a release and the scan
\* the release had scheduled, and the third by a deferred scan
C3_Witness ==
    /\ max_connections = 1
    /\ Len(dispatched) = 3
    /\ obs[1].dispIn = 1
    /\ obs[2].dispIn = 3
    /\ obs[3].dispIn = 0

\* C4: whenever nothing is running and no scan is scheduled, no request is
\* left pending while a slot is free: every checkin re-runs the scan.
C4_NoStalledQueue == Quiescent => ~(queue # <<>> /\ owed < max_connections)

\* C5: a connection that has hit a connectivity error is closed and is not in
\* the idle deque.
C5_ErroredConnClosed ==
    \A c \in Conns : connErr[c] => connClosed[c] /\ c \notin IdleSet

\* C6: when the establishment of a request's connection fails (connect()
\* raises, or its poll cycle reports an error), the request gets the error and
\* no fairy, owed is back at what it was before the request was admitted,
\* nothing is added to the idle deque, and connect() is not called again.
C6_EstablishmentFailure ==
    [][\A r \in Requests :
          rstate[r] # "failed" /\ rstate'[r] = "failed" =>
             /\ obs'[r].nerror = 1
             /\ obs'[r].ndeliver = 0
             /\ obs'[r].nconnect <= 1
             /\ owed' = IF rstate[r] = "connecting" THEN owed - 1 ELSE owed
             /\ \A i \in 1..Len(connections') :
                   \E j \in 1..Len(connections) : connections'[i] = connections[j]
             /\ obs'[r].nconnect = 1 => connections' = connections]_vars

C8_ReleaseChecksInOnce ==
    [][\A r \in Requests :
          /\ r \in refs /\ r \notin refs' =>
                LET c == rconn[r]
                    noIdle == closed \/ connErr'[c] \/ connClosed'[c]
                IN  /\ obs'[r].ncheckin = obs[r].ncheckin + 1
                    /\ obs'[r].nerrcheckin = obs[r].nerrcheckin
                    /\ owed' = owed - 1
                    /\ Len(connections') = Len(connections) + (IF noIdle THEN 0 ELSE 1)
                    /\ noIdle => connClosed'[c]
          /\ obs'[r].ncheckin # obs[r].ncheckin =>
                \/ r \in refs /\ r \notin refs'
                \/ rstate[r] # "failed" /\ rstate'[r] = "failed"]_vars

\* C9: once the pool is closed the idle deque is empty, every connection the
\* pool has opened is closed unless a request is still establishing it or a
\* live fairy holds it, and when none is outstanding owed is 0.
C9_ShutdownClosesAll ==
    closed =>
       /\ connections = <<>>
       /\ \A c \in 1..nconn :
             connClosed[c] \/ \E r \in Requests : InUse(r) /\ rconn[r] = c
       /\ (\A r \in Requests : ~InUse(r)) => owed = 0

\* C10: close() is no rejection.  The call itself cancels and fails nothing
\* queued or in flight; a cursor() after it still enqueues; the scan admits
\* under the same gate, and what it admits opens a new connection.
C10_ShutdownNoRejection ==
    [][/\ ~closed /\ closed' =>
             /\ queue' = queue /\ rstate' = rstate /\ owed' = owed
             /\ handlers' = handlers /\ pollers' = pollers /\ refs' = refs
       /\ closed /\ next' # next =>
             queue' = Append(queue, next) /\ rstate'[next] = "pending"
       /\ closed /\ InScan /\ queue # <<>> /\ owed < max_connections =>
             /\ dispatched' = Append(dispatched, Head(queue))
             /\ obs'[Head(queue)].nconnect = 1
             /\ rstate'[Head(queue)] \in {"connecting", "leased", "failed"}]_vars

\* after close(): a request submitted after it holds a fairy on a connection
\* opened after it, a request submitted before it is still being connected,
\* and one has been delivered and released
C10_Witness ==
    /\ closed
    /\ \E r, r2 \in Requests :
          /\ obs[r].afterClose /\ rstate[r] = "leased" /\ ~connClosed[rconn[r]]
          /\ ~obs[r2].afterClose /\ rstate[r2] = "connecting"


\* C11: a request admitted while idle is non-empty is bound to a connection
\* taken from idle and psycopg2.connect is not called for it, then or later.
\* With max_connections = 1 a second request is never in use while the first
\* one's fairy is alive, and once the first is released on an open pool with its
\* connection open, the second, when it is dispatched without a close() in
\* between, gets the very connection the first one used.
C11_ReuseIdle ==
    /\ [](max_connections = 1 => Cardinality({r \in Requests : InUse(r)}) <= 1)
    /\ [][ (InScan /\ queue # <<>> /\ owed < max_connections /\ connections # <<>>)
             => LET r == Head(queue)
                IN  /\ nconn' = nconn
                    /\ obs'[r].nconnect = 0
                    /\ rconn'[r] \in IdleSet
                    /\ rconn'[r] \notin {connections'[i] : i \in 1..Len(connections')}
                    /\ (max_connections = 1 =>
                           \E a \in Requests :
                               rstate[a] = "released" /\ rconn[a] = rconn'[r]) ]_vars

C11_Witness ==
    /\ max_connections = 1
    /\ rstate[1] = "released"
    /\ rstate[2] = "leased"
    /\ obs[2].subFree = FALSE
    /\ obs[2].dispIn = 0
    /\ obs[2].ndeliver = 1
    /\ rconn[2] = rconn[1]
    /\ obs[2].nconnect = 0
    /\ nconn = 1

\* C12 as stated: a request dispatched while idle holds two or more connections
\* gets the one checked in last (idle is kept in checkin order, _checkin
\* appends on the right).
C12_ReuseMostRecent ==
    [][ (InScan /\ queue # <<>> /\ owed < max_connections /\ Len(connections) >= 2)
          => rconn'[Head(queue)] = connections[Len(connections)] ]_vars

\* C12 amended: a request dispatched while idle holds two or more connections
\* gets the one checked in first, the least recently returned, and the others
\* stay idle in their order: reuse is first in, first out in checkin order.
C12_ReuseLeastRecent ==
    [][ (InScan /\ queue # <<>> /\ owed < max_connections /\ Len(connections) >= 2)
          => /\ rconn'[Head(queue)] = connections[1]
             /\ connections' = Tail(connections)
             /\ nconn' = nconn ]_vars

C12_Witness ==
    /\ rstate[1] = "released"
    /\ rstate[2] = "released"
    /\ rstate[3] = "leased"
    /\ obs[3].nconnect = 0
    /\ nconn = 2
    /\ Len(connections) = 1
    /\ rconn[3] # connections[1]
    /\ rconn[3] \in {rconn[1], rconn[2]}

\* C13: while the poll started by a fairy's execute is in flight the fairy is
\* in the lease registry and its connection has not been checked in, whether
\* or not the caller holds a reference; the count is still 0 while the
\* completion callback runs with the fairy as its argument; it is never more
\* than 1, and it is 1 for a delivered fairy only when the caller holds it no
\* more and no callback is running with it.
C13_NoCheckinInFlight ==
    \A r \in Requests :
        /\ qstate[r] = "polling" =>
              /\ rstate[r] = "leased"
              /\ r \in refs
              /\ obs[r].ncheckin = 0
              /\ handlers[rconn[r]] # 0
        /\ InFrame(r, stack) => (r \in refs /\ obs[r].ncheckin = 0)
        /\ obs[r].ncheckin <= 1
        /\ (obs[r].ndeliver = 1 /\ obs[r].ncheckin = 1) =>
              /\ rstate[r] = "released"
              /\ r \notin refs
              /\ ~held[r]
              /\ ~InFrame(r, stack)
              /\ qstate[r] # "polling"

C13_Witness ==
    \E r \in Requests :
        /\ qstate[r] = "polling"
        /\ ~held[r]
        /\ ~InFrame(r, stack)
        /\ r \in refs
        /\ obs[r].ncheckin = 0
        /\ \E a \in Requests :
              /\ qstate[a] = "done"
              /\ obs[a].pok[1] = 1
              /\ obs[a].ncheckin = 1
              /\ rstate[a] = "released"

\* C14: every connection made is in use by exactly one request (connecting, or
\* leased to one live fairy), or once in idle, or closed. A connection in idle
\* is not in use, has no poll handler registered and is not closed; no
\* connection is in idle twice; no connection is bound to two requests in use
\* or to two live fairies. (A leased connection the driver has marked closed
\* counts as leased until its fairy is released.)
C14_ConnectionStates ==
    \A c \in Conns :
        LET users == {r \in Requests : InUse(r) /\ rconn[r] = c}
            fairies == {r \in refs : rconn[r] = c}
            nidle == Cardinality({i \in 1..Len(connections) : connections[i] = c})
        IN  /\ c > nconn => (users = {} /\ fairies = {} /\ nidle = 0 /\ ~connClosed[c])
            /\ Cardinality(users) <= 1
            /\ Cardinality(fairies) <= 1
            /\ fairies \subseteq users
            /\ nidle <= 1
            /\ nidle = 1 => (users = {} /\ handlers[c] = 0 /\ ~connClosed[c])
            /\ (c <= nconn /\ users = {} /\ nidle = 0) => connClosed[c]

C14_Witness ==
    \E c1, c2 \in Conns :
        /\ c1 \in IdleSet
        /\ \E a, b \in Requests :
              /\ a # b
              /\ rstate[a] = "released" /\ rconn[a] = c1
              /\ rstate[b] = "released" /\ rconn[b] = c1
        /\ c2 # c1
        /\ connClosed[c2]
        /\ \E r \in refs : rconn[r] = c2

\* C16: no poller calls add_handler for a descriptor that is registered, or
\* update_handler or remove_handler for one that is not.  A descriptor becomes
\* registered only in the step that makes a new poller (its first tick, events
\* = 0) and only with the read or the write interest the driver asked for;
\* while it stays registered across a step the poller is the same one, which
\* has only updated the interest.
C16_NoDoubleRegister ==
    /\ [](\A r \in Requests : ~obs[r].badreg)
    /\ [][ \A c \in Conns :
              /\ (handlers[c] = 0 /\ handlers'[c] # 0) =>
                    /\ pollers'[c] # pollers[c]
                    /\ handlers'[c] \in {ERROR + READ, ERROR + WRITE}
              /\ (handlers[c] # 0 /\ handlers'[c] # 0) =>
                    /\ pollers'[c] = pollers[c]
                    /\ handlers'[c] \in {ERROR + READ, ERROR + WRITE} ]_vars

C16_Witness ==
    \E r \in Requests :
        /\ qstate[r] = "polling"
        /\ pollers[rconn[r]] = <<r, 1>>
        /\ handlers[rconn[r]] = ERROR + WRITE
        /\ obs[r].pok[0] = 1
        /\ ~obs[r].badreg

C18_CloseIdempotentFrame ==
    /\ [](closed => connections = <<>>)
    /\ [][closed => closed']_vars
    /\ [][ (~closed /\ closed') =>
              /\ connections' = <<>>
              /\ \A c \in Conns : connClosed'[c] = (connClosed[c] \/ c \in IdleSet)
              /\ UNCHANGED <<max_connections, queue, owed, refs, handlers, pollers,
                             callbacks, nconn, rstate, rconn, held, qstate, nexec,
                             stack, next, dispatched, connErr, obs>> ]_vars

C18_Witness ==
    /\ closed
    /\ queue # <<>>
    /\ owed > 0
    /\ \E r \in refs : rstate[r] = "leased" /\ ~connClosed[rconn[r]]
    /\ \E c \in Conns :
          /\ connClosed[c]
          /\ ~connErr[c]
          /\ \A r \in Requests : rconn[r] = c => (rstate[r] = "released" /\ ~obs[r].afterClose)
          /\ \E r \in Requests : rconn[r] = c

\* C19: owed plus the number of idle connections never exceeds
\* max_connections, and neither does the number of connections made and not
\* closed.  A connection is made only in a step that starts with idle empty,
\* and every step that makes idle longer adds one connection and takes one
\* off owed.
C19_OpenConnectionsBounded ==
    /\ [](owed + Len(connections) <= max_connections)
    /\ [](Cardinality({c \in Conns : c <= nconn /\ ~connClosed[c]}) <= max_connections)
    /\ [][ /\ nconn' # nconn => (nconn' = nconn + 1 /\ connections = <<>>)
           /\ Len(connections') > Len(connections) =>
                 /\ Len(connections') = Len(connections) + 1
                 /\ owed' = owed - 1 ]_vars

C19_Witness ==
    /\ owed >= 1
    /\ Len(connections) >= 1
    /\ owed + Len(connections) = max_connections
    /\ nconn = max_connections
    /\ \E r \in refs : rconn[r] \notin IdleSet /\ ~connClosed[rconn[r]]

\* C20 as stated: a step in which a query of the fairy of r ends with a
\* statement-level error (the connection has no connectivity error) raises,
\* calls no completion, leaves no handler registered and leaves the fairy in
\* the registry, with owed, idle, the queue and the checkin count unchanged.
C20_QueryErrorNoCheckin ==
    [][ \A r \in Requests :
          (qstate[r] # "error" /\ qstate'[r] = "error" /\ ~connErr'[rconn[r]]) =>
              /\ obs'[r].perr[nexec'[r]] = 1
              /\ obs'[r].pok[nexec'[r]] = 0
              /\ handlers'[rconn[r]] = 0
              /\ queue' = queue
              /\ r \in refs'
              /\ owed' = owed
              /\ connections' = connections
              /\ obs'[r].ncheckin = obs[r].ncheckin ]_vars

\* C20 amended: such a step raises, calls no completion, leaves no handler
\* registered and leaves the queue unchanged.  When the caller holds the fairy
\* or a callback is running with it, the fairy stays in the registry and owed,
\* idle and the checkin count are unchanged.  When the poller held the last
\* reference, the fairy dies in that very step: one checkin with no error,
\* owed down by one, a deferred scan scheduled, and the connection appended to
\* idle if the pool is open and the connection is not closed.  A fairy that
\* outlived its query error is checked in the same way when it is released.
C20_QueryErrorCheckinOnDeath ==
    [][ \A r \in Requests :
          LET c == rconn[r]
              reidled == IF closed \/ connClosed[c] THEN connections
                         ELSE Append(connections, c)
              checkedIn ==
                  /\ r \notin refs'
                  /\ rstate'[r] = "released"
                  /\ owed' = owed - 1
                  /\ obs'[r].ncheckin = obs[r].ncheckin + 1
                  /\ obs'[r].nerrcheckin = obs[r].nerrcheckin
                  /\ callbacks' = callbacks + 1
                  /\ connections' = reidled
                  /\ connClosed'[c] = (connClosed[c] \/ closed)
          IN  /\ (qstate[r] # "error" /\ qstate'[r] = "error" /\ ~connErr'[c]) =>
                    /\ obs'[r].perr[nexec'[r]] = 1
                    /\ obs'[r].pok[nexec'[r]] = 0
                    /\ handlers'[c] = 0
                    /\ queue' = queue
                    /\ IF held[r] \/ InFrame(r, stack)
                       THEN /\ r \in refs'
                            /\ owed' = owed
                            /\ connections' = connections
                            /\ obs'[r].ncheckin = obs[r].ncheckin
                       ELSE checkedIn
              /\ (qstate[r] = "error" /\ ~connErr[c] /\ r \in refs /\ r \notin refs') =>
                    checkedIn ]_vars

C20_Witness ==
    \E r, e \in Requests :
        /\ qstate[r] = "error"
        /\ ~connErr[rconn[r]]
        /\ rstate[r] = "released"
        /\ obs[r].ncheckin = 1
        /\ obs[r].pok[1] = 0
        /\ rconn[r] \in IdleSet
        /\ callbacks >= 1
        /\ qstate[e] = "error"
        /\ ~connErr[rconn[e]]
        /\ e \in refs
        /\ held[e]
        /\ obs[e].ncheckin = 0

====
